---- MODULE Spec2Model ----
(***************************************************************************)
(* Model of the plugin runtime of ai.backend.gateway.plugin:               *)
(*   HookPluginContext   (add_plugin, init, shutdown, dispatch_event)      *)
(*   WebAppPluginContext (add_plugin, init, shutdown, enumerate_apps)      *)
(* Every coroutine is a record whose pc names the await it is suspended    *)
(* in; one action is the code that runs between two suspensions.           *)
(***************************************************************************)
EXTENDS Integers, Sequences, FiniteSets, TLC

\* ---------------------------------------------------------------- bounds
\* the number of calls the host makes on one context
MaxCalls == 4

\* ------------------------------------------------------------ vocabulary
HookEventTypes ==
    {"USER_SIGNUP", "USER_LOGIN", "KERNEL_START",
     "KERNEL_TERMINATE", "VFOLDER_CREATE", "VFOLDER_DELETE"}

\* the event types the host raises in the model; no module binds KERNEL_START
RaisedEventTypes ==
    {e \in HookEventTypes : e \in {"USER_SIGNUP", "USER_LOGIN", "KERNEL_START"}}

HookResult == {"BYPASS", "REJECTED", "MODIFIED"}

\* what one awaited handler ends with: a HookResult, or an Exception
HandlerOutcomes == HookResult \cup {"Exception"}

\* the hook plugin modules that can be installed, and the bindings the hook
\* each one creates declares through get_handlers()
HookModules == {"A", "B"}

get_handlers(mod) ==
    IF mod = "A" THEN <<"USER_SIGNUP">>
    ELSE <<"USER_SIGNUP", "USER_LOGIN">>

VARIABLES
    hook_plugins,       \* HookPluginContext._plugins
    hook_hooks,         \* HookPluginContext._hooks
    hook_handler_map,   \* HookPluginContext._handler_map
    hook_initialized,   \* HookPluginContext._initialized
    hook_inits,         \* the calls of HookPluginContext.init, one record each
    dispatches,         \* the calls of dispatch_event
    shutdowns,          \* the calls of HookPluginContext.shutdown
    web_plugins,        \* WebAppPluginContext._plugins
    web_initialized,    \* WebAppPluginContext._initialized
    webapps,            \* WebAppPluginContext.webapps
    web_inits,          \* the calls of WebAppPluginContext.init
    enumerations,       \* the generators enumerate_apps() has returned
    web_shutdowns       \* the calls of WebAppPluginContext.shutdown

hook_vars ==
    <<hook_plugins, hook_hooks, hook_handler_map, hook_initialized,
      hook_inits, dispatches, shutdowns>>

web_vars ==
    <<web_plugins, web_initialized, webapps, web_inits, enumerations,
      web_shutdowns>>

vars == <<hook_plugins, hook_hooks, hook_handler_map, hook_initialized,
          hook_inits, dispatches, shutdowns,
          web_plugins, web_initialized, webapps, web_inits, enumerations,
          web_shutdowns>>

\* ----------------------------------------------------------- HookPluginContext
\* the calls the host has made on the HookPluginContext
HookCalls ==
    Len(hook_plugins) + Len(hook_inits) + Len(dispatches) + Len(shutdowns)

HookInit ==
    /\ hook_plugins = <<>>
    /\ hook_hooks = <<>>
    /\ hook_handler_map = [e \in {} |-> <<>>]
    /\ hook_initialized = FALSE
    /\ hook_inits = <<>>
    /\ dispatches = <<>>
    /\ shutdowns = <<>>

\* indexing the defaultdict(list): an absent key reads as the empty list
HandlersFor(map, e) ==
    IF e \in DOMAIN map THEN map[e] ELSE <<>>

\* self._handler_map[event_type] on a plain dict: an absent key raises KeyError
MapGet_KeyError(map, e) ==
    IF e \in DOMAIN map
    THEN [error |-> "none", handlers |-> map[e]]
    ELSE [error |-> "KeyError", handlers |-> <<>>]

\* self._handler_map.get(event_type, []): no entry is created, nothing raised
MapGet(map, e) ==
    [error |-> "none",
     handlers |-> IF e \in DOMAIN map THEN map[e] ELSE <<>>]

\* self._handler_map[event_type].append(handler)
MapAppend(map, e, h) ==
    [x \in (DOMAIN map) \cup {e} |->
        IF x = e THEN Append(HandlersFor(map, e), h) ELSE map[x]]

\* for event_type, handler in hook.get_handlers(): ...append(handler)
RECURSIVE AppendHandlers(_, _, _)
AppendHandlers(map, hook, k) ==
    IF k > Len(get_handlers(hook.mod)) THEN map
    ELSE AppendHandlers(
            MapAppend(map, get_handlers(hook.mod)[k],
                      [mod |-> hook.mod, inst |-> hook.inst, idx |-> k]),
            hook, k + 1)

add_plugin(mod) ==
    /\ HookCalls < MaxCalls
    /\ hook_plugins' = Append(hook_plugins, mod)
    /\ UNCHANGED <<hook_hooks, hook_handler_map, hook_initialized,
                   hook_inits, dispatches, shutdowns,
                   web_vars>>

NoHook == [mod |-> "none", inst |-> <<0, 0>>]

\* the loop head of init: take the next module and await its factory, or leave
\* the loop, set _initialized and return
InitLoopHead(i) ==
    IF i <= Len(hook_plugins)
    THEN [pc |-> "factory", i |-> i, hook |-> NoHook, error |-> "none"]
    ELSE [pc |-> "returned", i |-> i, hook |-> NoHook, error |-> "none"]

\* init() without its "already initialized" guard
init_call_Unguarded ==
    /\ HookCalls < MaxCalls
    /\ LET t == InitLoopHead(1) IN
        /\ hook_inits' = Append(hook_inits, t)
        /\ hook_initialized' = (hook_initialized \/ t.pc = "returned")
    /\ UNCHANGED <<hook_plugins, hook_hooks, hook_handler_map,
                   dispatches, shutdowns,
                   web_vars>>

\* init() that sets _initialized inside the loop body only
init_call_FlagInLoop ==
    /\ HookCalls < MaxCalls
    /\ IF hook_initialized
       THEN /\ hook_inits' = Append(hook_inits,
                    [pc |-> "raised", i |-> 0, hook |-> NoHook,
                     error |-> "already initialized"])
            /\ UNCHANGED hook_initialized
       ELSE /\ hook_inits' = Append(hook_inits, InitLoopHead(1))
            /\ UNCHANGED hook_initialized
    /\ UNCHANGED <<hook_plugins, hook_hooks, hook_handler_map,
                   dispatches, shutdowns,
                   web_vars>>

\* init(): the guard, then the first iteration up to its first await
init_call ==
    /\ HookCalls < MaxCalls
    /\ IF hook_initialized
       THEN /\ hook_inits' = Append(hook_inits,
                    [pc |-> "raised", i |-> 0, hook |-> NoHook,
                     error |-> "already initialized"])
            /\ UNCHANGED hook_initialized
       ELSE LET t == InitLoopHead(1) IN
            /\ hook_inits' = Append(hook_inits, t)
            /\ hook_initialized' = (t.pc = "returned")
    /\ UNCHANGED <<hook_plugins, hook_hooks, hook_handler_map,
                   dispatches, shutdowns,
                   web_vars>>

\* an init call is suspended in a plugin factory or in the init() of a hook
InitSuspended ==
    \E n \in 1..Len(hook_inits) : hook_inits[n].pc \in {"factory", "hook_init"}

\* "await ctx.init()" by a host that has awaited its earlier init calls
init_call_Awaited ==
    /\ ~InitSuspended
    /\ init_call

\* hook = await plugin_mod.init(config): the factory returns a new hook, and
\* init goes on to await hook.init()
init_factory_returns(n) ==
    /\ n \in 1..Len(hook_inits)
    /\ hook_inits[n].pc = "factory"
    /\ hook_inits' = [hook_inits EXCEPT ![n] =
            [@ EXCEPT !.pc = "hook_init",
                      !.hook = [mod |-> hook_plugins[hook_inits[n].i],
                                inst |-> <<n, hook_inits[n].i>>]]]
    /\ UNCHANGED <<hook_plugins, hook_hooks, hook_handler_map,
                   hook_initialized, dispatches, shutdowns,
                   web_vars>>

\* the factory, or hook.init(), raises: the exception leaves init()
init_await_raises(n) ==
    /\ n \in 1..Len(hook_inits)
    /\ hook_inits[n].pc \in {"factory", "hook_init"}
    /\ hook_inits' = [hook_inits EXCEPT ![n] =
            [@ EXCEPT !.pc = "raised", !.error = "plugin fault"]]
    /\ UNCHANGED <<hook_plugins, hook_hooks, hook_handler_map,
                   hook_initialized, dispatches, shutdowns,
                   web_vars>>

\* await hook.init() returns: the handlers and the hook are appended and the
\* loop goes to its next iteration
init_hook_init_returns(n) ==
    /\ n \in 1..Len(hook_inits)
    /\ hook_inits[n].pc = "hook_init"
    /\ LET t == hook_inits[n]
           next == InitLoopHead(t.i + 1) IN
        /\ hook_handler_map' = AppendHandlers(hook_handler_map, t.hook, 1)
        /\ hook_hooks' = Append(hook_hooks, t.hook)
        /\ hook_inits' = [hook_inits EXCEPT ![n] = next]
        /\ hook_initialized' =
                IF next.pc = "returned" THEN TRUE ELSE hook_initialized
    /\ UNCHANGED <<hook_plugins, dispatches, shutdowns,
                   web_vars>>

\* gather() that forgets return_exceptions: the first exception ends the wait
GatherDone_FirstException(results, return_exceptions) ==
    \/ \A k \in 1..Len(results) : results[k] # "pending"
    \/ \E k \in 1..Len(results) : results[k] = "Exception"

\* gather() that is done only when every awaitable has ended with a result
GatherDone_AllSucceeded(results, return_exceptions) ==
    \A k \in 1..Len(results) : results[k] \notin {"pending", "Exception"}

\* asyncio.gather(*aws, return_exceptions=...): the awaiting coroutine can be
\* resumed once every awaitable is done or, without return_exceptions, as soon
\* as one of them has raised
GatherDone(results, return_exceptions) ==
    \/ \A k \in 1..Len(results) : results[k] # "pending"
    \/ /\ ~return_exceptions
       /\ \E k \in 1..Len(results) : results[k] = "Exception"

\* the reduction without a capture of faults: a gathered exception is re-raised
DispatchOutcome_PropagatesFault(results) ==
    IF \E k \in 1..Len(results) : results[k] = "Exception"
    THEN [pc |-> "raised", value |-> "none"]
    ELSE IF \E k \in 1..Len(results) : results[k] = "REJECTED"
    THEN [pc |-> "returned", value |-> "REJECTED"]
    ELSE [pc |-> "returned", value |-> "BYPASS"]

\* the reduction with all() in the place of any()
DispatchOutcome_All(results) ==
    IF /\ results # <<>>
       /\ \A k \in 1..Len(results) : results[k] \in {"Exception", "REJECTED"}
    THEN [pc |-> "returned", value |-> "REJECTED"]
    ELSE [pc |-> "returned", value |-> "BYPASS"]

\* the reduction that hands a MODIFIED outcome on to the caller
DispatchOutcome_ReturnsModified(results) ==
    IF \E k \in 1..Len(results) : results[k] \in {"Exception", "REJECTED"}
    THEN [pc |-> "returned", value |-> "REJECTED"]
    ELSE IF \E k \in 1..Len(results) : results[k] = "MODIFIED"
    THEN [pc |-> "returned", value |-> "MODIFIED"]
    ELSE [pc |-> "returned", value |-> "BYPASS"]

\* the reduction with "r != HookResult.REJECTED" in the place of "=="
DispatchOutcome_Negated(results) ==
    IF \E k \in 1..Len(results) : results[k] # "REJECTED"
    THEN [pc |-> "returned", value |-> "REJECTED"]
    ELSE [pc |-> "returned", value |-> "BYPASS"]

\* the reduction with "r != HookResult.BYPASS": a MODIFIED outcome rejects
DispatchOutcome_ModifiedRejects(results) ==
    IF \E k \in 1..Len(results) : results[k] # "BYPASS"
    THEN [pc |-> "returned", value |-> "REJECTED"]
    ELSE [pc |-> "returned", value |-> "BYPASS"]

\* the reduction of the gathered results to the value dispatch_event returns
DispatchOutcome(results) ==
    IF \E k \in 1..Len(results) : results[k] \in {"Exception", "REJECTED"}
    THEN [pc |-> "returned", value |-> "REJECTED"]
    ELSE [pc |-> "returned", value |-> "BYPASS"]

\* dispatch_event() that looks the handlers up with
\* self._handler_map[event_type]: the defaultdict creates the absent key
dispatch_event_CreatesEntry(event_type) ==
    /\ HookCalls < MaxCalls
    /\ LET handlers == HandlersFor(hook_handler_map, event_type)
           results == [k \in 1..Len(handlers) |-> "pending"]
           out == IF handlers = <<>>
                  THEN DispatchOutcome(results)
                  ELSE [pc |-> "gather", value |-> "none"] IN
        /\ dispatches' = Append(dispatches,
            [event |-> event_type, invoked |-> handlers, results |-> results,
             pc |-> out.pc, value |-> out.value,
             bound |-> handlers,
             initialized |-> hook_initialized])
        /\ hook_handler_map' =
            [x \in (DOMAIN hook_handler_map) \cup {event_type} |->
                HandlersFor(hook_handler_map, x)]
    /\ UNCHANGED <<hook_plugins, hook_hooks,
                   hook_initialized, hook_inits, shutdowns,
                   web_vars>>

\* dispatch_event(): the lookup and the creation of one awaitable per handler;
\* gather() of no awaitable is done at once and the await does not suspend
dispatch_event(event_type) ==
    /\ HookCalls < MaxCalls
    /\ LET found == MapGet(hook_handler_map, event_type)
           handlers == found.handlers
           results == [k \in 1..Len(handlers) |-> "pending"]
           out == IF found.error # "none"
                  THEN [pc |-> "raised", value |-> "none"]
                  ELSE IF handlers = <<>>
                  THEN DispatchOutcome(results)
                  ELSE [pc |-> "gather", value |-> "none"] IN
        dispatches' = Append(dispatches,
            [event |-> event_type, invoked |-> handlers, results |-> results,
             pc |-> out.pc, value |-> out.value,
             bound |-> HandlersFor(hook_handler_map, event_type),
             initialized |-> hook_initialized])
    /\ UNCHANGED <<hook_plugins, hook_hooks, hook_handler_map,
                   hook_initialized, hook_inits, shutdowns,
                   web_vars>>

\* one awaitable per handler, shared by the dispatches in flight: its outcome
\* reaches every dispatch that waits for this handler
handler_completes_Shared(d, k, outcome) ==
    /\ d \in 1..Len(dispatches)
    /\ k \in 1..Len(dispatches[d].results)
    /\ dispatches[d].results[k] = "pending"
    /\ dispatches' =
        [x \in 1..Len(dispatches) |->
            [dispatches[x] EXCEPT !.results =
                [j \in 1..Len(dispatches[x].results) |->
                    IF /\ dispatches[x].invoked[j] = dispatches[d].invoked[k]
                       /\ dispatches[x].results[j] = "pending"
                    THEN outcome ELSE dispatches[x].results[j]]]]
    /\ UNCHANGED <<hook_plugins, hook_hooks, hook_handler_map,
                   hook_initialized, hook_inits, shutdowns,
                   web_vars>>

\* one handler invocation of dispatch d ends
handler_completes(d, k, outcome) ==
    /\ d \in 1..Len(dispatches)
    /\ k \in 1..Len(dispatches[d].results)
    /\ dispatches[d].results[k] = "pending"
    /\ dispatches' = [dispatches EXCEPT ![d].results[k] = outcome]
    /\ UNCHANGED <<hook_plugins, hook_hooks, hook_handler_map,
                   hook_initialized, hook_inits, shutdowns,
                   web_vars>>

\* the gather of dispatch d is done: dispatch_event resumes and returns
dispatch_resumes(d) ==
    /\ d \in 1..Len(dispatches)
    /\ dispatches[d].pc = "gather"
    /\ GatherDone(dispatches[d].results, TRUE)
    /\ LET out == DispatchOutcome(dispatches[d].results) IN
        dispatches' = [dispatches EXCEPT ![d].pc = out.pc,
                                         ![d].value = out.value]
    /\ UNCHANGED <<hook_plugins, hook_hooks, hook_handler_map,
                   hook_initialized, hook_inits, shutdowns,
                   web_vars>>

\* what HookPluginContext.shutdown ends with once its gather is done
ShutdownOutcome(results) ==
    IF \E k \in 1..Len(results) : results[k] = "Exception"
    THEN "raised" ELSE "returned"

\* what the caller of shutdown call t receives of the plugins' exceptions: the
\* one exception gather() raises, that of the first awaitable that raised
ShutdownReport(t) ==
    IF t.pc = "raised" THEN {t.first_exc} ELSE {}

\* shutdown() without its "if not self._initialized: return"
shutdown_call_Unguarded ==
    /\ HookCalls < MaxCalls
    /\ LET hooks == hook_hooks
           results == [k \in 1..Len(hooks) |-> "pending"] IN
        shutdowns' = Append(shutdowns,
            [invoked |-> hooks, results |-> results,
             pc |-> IF hooks = <<>> THEN "returned" ELSE "gather",
             first_exc |-> 0, at_return |-> results,
             activated |-> hook_hooks, initialized |-> hook_initialized])
    /\ UNCHANGED <<hook_plugins, hook_hooks, hook_handler_map,
                   hook_initialized, hook_inits, dispatches,
                   web_vars>>

\* shutdown(): the guard, then one hook.shutdown() awaitable per activated hook
shutdown_call ==
    /\ HookCalls < MaxCalls
    /\ LET hooks == IF hook_initialized THEN hook_hooks ELSE <<>>
           results == [k \in 1..Len(hooks) |-> "pending"] IN
        shutdowns' = Append(shutdowns,
            [invoked |-> hooks, results |-> results,
             pc |-> IF hooks = <<>> THEN "returned" ELSE "gather",
             first_exc |-> 0, at_return |-> results,
             activated |-> hook_hooks, initialized |-> hook_initialized])
    /\ UNCHANGED <<hook_plugins, hook_hooks, hook_handler_map,
                   hook_initialized, hook_inits, dispatches,
                   web_vars>>

\* the shutdown() of one hook ends, normally or with an exception
hook_shutdown_completes(s, k, outcome) ==
    /\ s \in 1..Len(shutdowns)
    /\ k \in 1..Len(shutdowns[s].results)
    /\ shutdowns[s].results[k] = "pending"
    /\ shutdowns' = [shutdowns EXCEPT
            ![s].results[k] = outcome,
            ![s].first_exc =
                IF @ = 0 /\ outcome = "Exception" THEN k ELSE @]
    /\ UNCHANGED <<hook_plugins, hook_hooks, hook_handler_map,
                   hook_initialized, hook_inits, dispatches,
                   web_vars>>

\* the gather of shutdown s is done: shutdown() resumes, and returns or raises
shutdown_resumes(s) ==
    /\ s \in 1..Len(shutdowns)
    /\ shutdowns[s].pc = "gather"
    /\ GatherDone(shutdowns[s].results, FALSE)
    /\ shutdowns' = [shutdowns EXCEPT
            ![s].pc = ShutdownOutcome(shutdowns[s].results),
            ![s].at_return = shutdowns[s].results]
    /\ UNCHANGED <<hook_plugins, hook_hooks, hook_handler_map,
                   hook_initialized, hook_inits, dispatches,
                   web_vars>>

\* --------------------------------------------------------- WebAppPluginContext
\* the webapp plugin modules that can be installed; the application of W3
\* never has a routing prefix
WebModules == {"W1", "W2", "W3"}

\* what the factory of a webapp module can return for the sub-application
Subapps(mod) ==
    IF mod = "W3"
    THEN {[type |-> "Application", prefix |-> p, mod |-> mod] :
            p \in {"missing", ""}}
    ELSE {[type |-> "Application", prefix |-> p, mod |-> mod] :
            p \in {"missing", "", "/app"}}
         \cup {[type |-> "dict", prefix |-> "/app", mod |-> mod]}

\* the types of what it can return for the global middlewares
MiddlewareTypes == {"NoneType", "list", "int"}

\* what "await plugin_mod.init(config, cors_options)" can evaluate to: a tuple
\* of two values, or a tuple of another length
WebFactoryResults(mod) ==
    {[arity |-> 2, subapp |-> a, global_middlewares |-> g] :
        a \in Subapps(mod), g \in MiddlewareTypes}
    \cup {[arity |-> 3, subapp |-> a, global_middlewares |-> "NoneType"] :
            a \in Subapps(mod)}

\* isinstance(x, Iterable), by the type of x: web.Application is a
\* MutableMapping
IsIterable(type) == type \in {"Application", "dict", "list"}

\* the checks with a prefix test that only looks for the key
WebProtocolError_KeyOnly(r) ==
    IF r.arity # 2 THEN "protocol error: tuple"
    ELSE IF r.subapp.type # "Application" THEN "protocol error: subapp"
    ELSE IF r.subapp.prefix = "missing" THEN "protocol error: prefix"
    ELSE IF r.global_middlewares # "NoneType" /\ ~IsIterable(r.subapp.type)
         THEN "protocol error: middlewares"
    ELSE "none"

\* the checks of init on what the factory returned: the error raised, or "none"
WebProtocolError(r) ==
    IF r.arity # 2 THEN "protocol error: tuple"
    ELSE IF r.subapp.type # "Application" THEN "protocol error: subapp"
    ELSE IF r.subapp.prefix = "missing" \/ r.subapp.prefix = ""
         THEN "protocol error: prefix"
    ELSE IF r.global_middlewares # "NoneType" /\ ~IsIterable(r.subapp.type)
         THEN "protocol error: middlewares"
    ELSE "none"

WebInit ==
    /\ web_plugins = <<>>
    /\ web_initialized = FALSE
    /\ webapps = <<>>
    /\ web_inits = <<>>
    /\ enumerations = <<>>
    /\ web_shutdowns = 0

\* the calls the host has made on the WebAppPluginContext
WebCalls ==
    Len(web_plugins) + Len(web_inits) + Len(enumerations) + web_shutdowns

web_add_plugin(mod) ==
    /\ WebCalls < MaxCalls
    /\ web_plugins' = Append(web_plugins, mod)
    /\ UNCHANGED <<web_initialized, webapps, web_inits, enumerations,
                   web_shutdowns,
                   hook_vars>>

\* the loop head of init: await the factory of the next module, or leave the
\* loop, set _initialized and return
WebInitLoopHead(i) ==
    IF i <= Len(web_plugins)
    THEN [pc |-> "factory", i |-> i, error |-> "none"]
    ELSE [pc |-> "returned", i |-> i, error |-> "none"]

\* init() without its "already initialized" guard
web_init_call_Unguarded ==
    /\ WebCalls < MaxCalls
    /\ LET t == WebInitLoopHead(1) IN
        /\ web_inits' = Append(web_inits, t)
        /\ web_initialized' = (web_initialized \/ t.pc = "returned")
    /\ UNCHANGED <<web_plugins, webapps, enumerations, web_shutdowns,
                   hook_vars>>

\* init(): the guard, then the first iteration up to its await
web_init_call ==
    /\ WebCalls < MaxCalls
    /\ IF web_initialized
       THEN /\ web_inits' = Append(web_inits,
                    [pc |-> "raised", i |-> 0, error |-> "already initialized"])
            /\ UNCHANGED web_initialized
       ELSE LET t == WebInitLoopHead(1) IN
            /\ web_inits' = Append(web_inits, t)
            /\ web_initialized' = (t.pc = "returned")
    /\ UNCHANGED <<web_plugins, webapps, enumerations, web_shutdowns,
                   hook_vars>>

\* the factory returns r: the checks, the append and the next iteration
web_init_factory_returns(n, r) ==
    /\ n \in 1..Len(web_inits)
    /\ web_inits[n].pc = "factory"
    /\ r \in WebFactoryResults(web_plugins[web_inits[n].i])
    /\ LET err == WebProtocolError(r)
           next == WebInitLoopHead(web_inits[n].i + 1) IN
        IF err # "none"
        THEN /\ web_inits' = [web_inits EXCEPT ![n].pc = "raised",
                                               ![n].error = err]
             /\ UNCHANGED <<webapps, web_initialized>>
        ELSE /\ webapps' = Append(webapps,
                    [subapp |-> r.subapp,
                     global_middlewares |-> r.global_middlewares])
             /\ web_inits' = [web_inits EXCEPT ![n] = next]
             /\ web_initialized' =
                    IF next.pc = "returned" THEN TRUE ELSE web_initialized
    /\ UNCHANGED <<web_plugins, enumerations, web_shutdowns,
                   hook_vars>>

\* the factory raises something that is not a ValueError: it leaves init()
web_init_factory_raises(n) ==
    /\ n \in 1..Len(web_inits)
    /\ web_inits[n].pc = "factory"
    /\ web_inits' = [web_inits EXCEPT ![n].pc = "raised",
                                      ![n].error = "plugin fault"]
    /\ UNCHANGED <<web_plugins, web_initialized, webapps, enumerations,
                   web_shutdowns,
                   hook_vars>>

\* shutdown(): pass
web_shutdown ==
    /\ WebCalls < MaxCalls
    /\ web_shutdowns' = web_shutdowns + 1
    /\ UNCHANGED <<web_plugins, web_initialized, webapps, web_inits,
                   enumerations,
                   hook_vars>>

\* enumerate_apps(): a generator function, so the call runs none of its body
\* and returns a generator that has not started
enumerate_apps ==
    /\ WebCalls < MaxCalls
    /\ enumerations' = Append(enumerations,
            [pc |-> "created", pos |-> 0, yielded |-> <<>>,
             initialized |-> web_initialized])
    /\ UNCHANGED <<web_plugins, web_initialized, webapps, web_inits,
                   web_shutdowns,
                   hook_vars>>

\* next() on generator g: the first one runs the guard; each one takes the
\* next element of the list "yield from" iterates, or ends the generator
enumerate_next(g) ==
    /\ g \in 1..Len(enumerations)
    /\ enumerations[g].pc \in {"created", "suspended"}
    /\ LET gen == enumerations[g] IN
        enumerations' = [enumerations EXCEPT ![g] =
            IF gen.pc = "created" /\ ~web_initialized
            THEN [gen EXCEPT !.pc = "raised"]
            ELSE IF gen.pos < Len(webapps)
            THEN [gen EXCEPT !.pc = "suspended", !.pos = gen.pos + 1,
                             !.yielded = Append(gen.yielded,
                                                webapps[gen.pos + 1])]
            ELSE [gen EXCEPT !.pc = "exhausted"]]
    /\ UNCHANGED <<web_plugins, web_initialized, webapps, web_inits,
                   web_shutdowns,
                   hook_vars>>

\* ------------------------------------------------------------------ loaders
\* the entry points installed under 'backendai_manager_hook_v10' and under
\* 'backendai_manager_webapp_v10', each with the module it resolves to
HookEntryPoints ==
    {[name |-> "a", mod |-> "A"], [name |-> "b", mod |-> "B"]}

WebEntryPoints ==
    {[name |-> "w1", mod |-> "W1"], [name |-> "w2", mod |-> "W2"]}

\* what pkg_resources.iter_entry_points(entry_prefix) can yield: the entry
\* points in the order of discovery
Discoveries(entry_points) ==
    UNION {[1..n -> entry_points] : n \in 0..MaxCalls}

\* entrypoint.load(): the module the entry point names
EntryPointLoad(entrypoint) == entrypoint.mod

\* the loop of a loader with ctx._plugins.insert(0, ...) in add_plugin
RECURSIVE LoadAll_Prepends(_, _, _)
LoadAll_Prepends(plugins, discovered, k) ==
    IF k > Len(discovered) THEN plugins
    ELSE LoadAll_Prepends(<<EntryPointLoad(discovered[k])>> \o plugins,
                          discovered, k + 1)

\* for entrypoint in ...: ctx.add_plugin(entrypoint.load())
RECURSIVE LoadAll(_, _, _)
LoadAll(plugins, discovered, k) ==
    IF k > Len(discovered) THEN plugins
    ELSE LoadAll(Append(plugins, EntryPointLoad(discovered[k])),
                 discovered, k + 1)

\* load_hook_plugins(): a new HookPluginContext with every discovered module
\* registered; the host holds this context from now on
load_hook_plugins(discovered) ==
    /\ discovered \in Discoveries(HookEntryPoints)
    /\ hook_plugins' = LoadAll(<<>>, discovered, 1)
    /\ hook_hooks' = <<>>
    /\ hook_handler_map' = [e \in {} |-> <<>>]
    /\ hook_initialized' = FALSE
    /\ hook_inits' = <<>>
    /\ dispatches' = <<>>
    /\ shutdowns' = <<>>
    /\ UNCHANGED web_vars

\* load_webapp_plugins(cors_options): the same with a new WebAppPluginContext
load_webapp_plugins(discovered) ==
    /\ discovered \in Discoveries(WebEntryPoints)
    /\ web_plugins' = LoadAll(<<>>, discovered, 1)
    /\ web_initialized' = FALSE
    /\ webapps' = <<>>
    /\ web_inits' = <<>>
    /\ enumerations' = <<>>
    /\ web_shutdowns' = 0
    /\ UNCHANGED hook_vars

\* ------------------------------------------------------------ specification
Init == HookInit /\ WebInit

RegisterNext ==
    \E mod \in HookModules : add_plugin(mod)

InitNext ==
    \/ init_call
    \/ \E n \in 1..MaxCalls : init_factory_returns(n)
    \/ \E n \in 1..MaxCalls : init_await_raises(n)
    \/ \E n \in 1..MaxCalls : init_hook_init_returns(n)

DispatchNext ==
    \/ \E e \in RaisedEventTypes : dispatch_event(e)
    \/ \E d \in 1..MaxCalls, k \in 1..(2 * MaxCalls),
          o \in HandlerOutcomes : handler_completes(d, k, o)
    \/ \E d \in 1..MaxCalls : dispatch_resumes(d)

ShutdownNext ==
    \/ shutdown_call
    \/ \E s \in 1..MaxCalls, k \in 1..MaxCalls,
          o \in {"done", "Exception"} : hook_shutdown_completes(s, k, o)
    \/ \E s \in 1..MaxCalls : shutdown_resumes(s)

\* the host drives the HookPluginContext
Next == RegisterNext \/ InitNext \/ DispatchNext \/ ShutdownNext

Spec == Init /\ [][Next]_vars

\* the event loop resumes a coroutine whose gather() is done, and every handler
\* and every hook shutdown that was started ends
Fairness ==
    /\ \A d \in 1..MaxCalls : WF_vars(dispatch_resumes(d))
    /\ \A d \in 1..MaxCalls, k \in 1..(2 * MaxCalls) :
            WF_vars(\E o \in HandlerOutcomes : handler_completes(d, k, o))
    /\ \A s \in 1..MaxCalls : WF_vars(shutdown_resumes(s))
    /\ \A s \in 1..MaxCalls, k \in 1..MaxCalls :
            WF_vars(\E o \in {"done", "Exception"} :
                        hook_shutdown_completes(s, k, o))

SpecLive == Init /\ [][Next]_vars /\ Fairness

\* the host drives the HookPluginContext and awaits every init call before it
\* calls init again
NextAwaitedInit ==
    \/ \E mod \in HookModules : add_plugin(mod)
    \/ init_call_Awaited
    \/ \E n \in 1..MaxCalls : init_factory_returns(n)
    \/ \E n \in 1..MaxCalls : init_await_raises(n)
    \/ \E n \in 1..MaxCalls : init_hook_init_returns(n)
    \/ \E e \in RaisedEventTypes : dispatch_event(e)
    \/ \E d \in 1..MaxCalls, k \in 1..(2 * MaxCalls),
          o \in HandlerOutcomes : handler_completes(d, k, o)
    \/ \E d \in 1..MaxCalls : dispatch_resumes(d)

SpecAwaitedInit == Init /\ [][NextAwaitedInit]_vars

\* the event loop resumes a coroutine whose gather() is done; nothing makes a
\* handler or the shutdown of a hook end
LoopFairness ==
    /\ \A d \in 1..MaxCalls : WF_vars(dispatch_resumes(d))
    /\ \A s \in 1..MaxCalls : WF_vars(shutdown_resumes(s))

SpecUnresponsive == Init /\ [][Next]_vars /\ LoopFairness

\* what the factory of W1 returns when it honours the protocol and has no
\* global middleware
W1Accepted ==
    {r \in WebFactoryResults("W1") :
        WebProtocolError(r) = "none" /\ r.global_middlewares = "NoneType"}

\* the host sets up both contexts, with the modules A and W1, and calls their
\* shutdown
NextShutdown ==
    \/ add_plugin("A")
    \/ init_call
    \/ \E n \in 1..MaxCalls : init_factory_returns(n)
    \/ \E n \in 1..MaxCalls : init_await_raises(n)
    \/ \E n \in 1..MaxCalls : init_hook_init_returns(n)
    \/ shutdown_call
    \/ web_add_plugin("W1")
    \/ web_init_call
    \/ \E n \in 1..MaxCalls :
          \E r \in W1Accepted : web_init_factory_returns(n, r)
    \/ web_shutdown

SpecShutdown == Init /\ [][NextShutdown]_vars

\* the host loads the hook plugins while it holds no hook plugin
startup_load_hook_plugins(discovered) ==
    /\ hook_plugins = <<>>
    /\ load_hook_plugins(discovered)

\* the host loads the webapp plugins while it holds no webapp plugin
startup_load_webapp_plugins(discovered) ==
    /\ web_plugins = <<>>
    /\ load_webapp_plugins(discovered)

\* the host loads the plugins of both kinds when it starts
NextLoad ==
    \/ \E discovered \in Discoveries(HookEntryPoints) :
            startup_load_hook_plugins(discovered)
    \/ \E discovered \in Discoveries(WebEntryPoints) :
            startup_load_webapp_plugins(discovered)

SpecLoad == Init /\ [][NextLoad]_vars

\* the host drives the WebAppPluginContext
NextWeb ==
    \/ \E mod \in WebModules : web_add_plugin(mod)
    \/ web_init_call
    \/ \E n \in 1..MaxCalls :
          \E r \in UNION {WebFactoryResults(m) : m \in WebModules} :
            web_init_factory_returns(n, r)
    \/ \E n \in 1..MaxCalls : web_init_factory_raises(n)
    \/ web_shutdown
    \/ enumerate_apps
    \/ \E g \in 1..MaxCalls : enumerate_next(g)

SpecWeb == Init /\ [][NextWeb]_vars

\* the host registers no plugin in either context, initializes both, dispatches
\* and enumerates
NextNoPlugins ==
    \/ init_call
    \/ \E e \in RaisedEventTypes : dispatch_event(e)
    \/ web_init_call
    \/ enumerate_apps
    \/ \E g \in 1..MaxCalls : enumerate_next(g)

SpecNoPlugins == Init /\ [][NextNoPlugins]_vars

\* ------------------------------------------------------------------ properties
Dispatches == {dispatches[d] : d \in 1..Len(dispatches)}

Raised(t) == \E k \in 1..Len(t.results) : t.results[k] = "Exception"

Rejected(t) == \E k \in 1..Len(t.results) : t.results[k] = "REJECTED"

\* C1: a dispatch_event call in which a handler has raised never ends by
\* raising, and once it has ended it has returned REJECTED.
C1_FaultYieldsRejected ==
    \A t \in Dispatches :
        Raised(t) =>
            /\ t.pc # "raised"
            /\ t.pc = "returned" => t.value = "REJECTED"

C1_Witness ==
    \E t \in Dispatches :
        /\ t.pc = "returned"
        /\ Len(t.results) >= 2
        /\ Raised(t)
        /\ \E k \in 1..Len(t.results) : t.results[k] = "BYPASS"

\* C2: a dispatch_event call that has ended and in which a handler returned
\* REJECTED has returned REJECTED, whatever the other handlers ended with.
C2_RejectedYieldsRejected ==
    \A t \in Dispatches :
        (t.pc # "gather" /\ Rejected(t)) =>
            (t.pc = "returned" /\ t.value = "REJECTED")

C2_Witness ==
    \E t \in Dispatches :
        /\ t.pc = "returned"
        /\ t.event = "USER_SIGNUP"
        /\ Len(t.results) >= 2
        /\ t.results[Len(t.results)] = "REJECTED"
        /\ t.results[1] \in {"BYPASS", "MODIFIED"}

\* C3: a dispatch_event call that has ended has returned REJECTED exactly when
\* some handler returned REJECTED or raised, and BYPASS otherwise (also with no
\* handler); it has returned nothing else.
C3_AggregateIff ==
    \A t \in Dispatches :
        t.pc # "gather" =>
            /\ t.pc = "returned"
            /\ t.value \in {"BYPASS", "REJECTED"}
            /\ t.value = "REJECTED" <=> (Rejected(t) \/ Raised(t))

C3_Witness ==
    \E t \in Dispatches :
        /\ t.pc = "returned"
        /\ t.value = "BYPASS"
        /\ \E k \in 1..Len(t.results) : t.results[k] = "MODIFIED"

\* C4: a dispatch_event call made while _initialized is false fails with a "not
\* initialized" error and invokes no handler.
C4_DispatchBeforeInitFails ==
    \A t \in Dispatches :
        ~t.initialized => (t.pc = "raised" /\ t.invoked = <<>>)

\* C5: an enumerate_apps call made while _initialized is false fails with a
\* "not initialized" error and yields no pair: its generator yields nothing and
\* never ends normally.
C5_EnumerateBeforeInitFails ==
    \A g \in 1..Len(enumerations) :
        ~enumerations[g].initialized =>
            /\ enumerations[g].yielded = <<>>
            /\ enumerations[g].pc \in {"created", "raised"}

\* C6: an init call made when _initialized is true raises "already initialized"
\* without awaiting any plugin, and changes neither _plugins, _hooks,
\* _handler_map, _initialized nor any other init call.
C6_SecondInitRejected ==
    [][(hook_initialized /\ Len(hook_inits') = Len(hook_inits) + 1) =>
          /\ hook_inits'[Len(hook_inits')].pc = "raised"
          /\ hook_inits'[Len(hook_inits')].error = "already initialized"
          /\ SubSeq(hook_inits', 1, Len(hook_inits)) = hook_inits
          /\ UNCHANGED <<hook_plugins, hook_hooks, hook_handler_map,
                         hook_initialized>>]_vars

C6_Witness ==
    /\ hook_initialized
    /\ hook_hooks # <<>>
    /\ \E n \in 1..Len(hook_inits) :
        /\ hook_inits[n].error = "already initialized"
        /\ \E m \in 1..(n - 1) : hook_inits[m].pc = "returned"

\* C7: a dispatch_event call on an initialized context for an event type with
\* no handler returns BYPASS at once, without an error.
C7_UnboundEventBypass ==
    \A t \in Dispatches :
        (t.initialized /\ t.bound = <<>>) =>
            (t.pc = "returned" /\ t.value = "BYPASS")

C7_Witness ==
    \E t \in Dispatches :
        /\ t.initialized
        /\ t.bound = <<>>
        /\ t.pc = "returned"
        /\ hook_hooks # <<>>
        /\ t.event \notin DOMAIN hook_handler_map

\* C8: a dispatch_event call that has ended and all of whose handlers returned
\* BYPASS has returned BYPASS.
C8_AllBypassYieldsBypass ==
    \A t \in Dispatches :
        (/\ t.pc # "gather"
         /\ t.results # <<>>
         /\ \A k \in 1..Len(t.results) : t.results[k] = "BYPASS") =>
            (t.pc = "returned" /\ t.value = "BYPASS")

C8_Witness ==
    \E t \in Dispatches :
        /\ t.pc = "returned"
        /\ Len(t.results) >= 2
        /\ \A k \in 1..Len(t.results) : t.results[k] = "BYPASS"

\* C9: a dispatch_event call invokes each handler bound to the event type once,
\* in the order of the handler list, and has not ended while one of these
\* invocations is still running.
C9_AllHandlersAwaited ==
    \A t \in Dispatches :
        /\ t.invoked = t.bound
        /\ Len(t.results) = Len(t.invoked)
        /\ t.pc # "gather" =>
                \A k \in 1..Len(t.results) : t.results[k] # "pending"

C9_Witness ==
    \E t \in Dispatches :
        /\ t.pc = "returned"
        /\ Len(t.invoked) >= 2
        /\ t.results[1] \in {"REJECTED", "Exception"}
        /\ t.invoked[1] # t.invoked[2]

\* C10: a shutdown call on an initialized context invokes the shutdown of every
\* activated hook, and has not ended while one of them is still running.
C10_ShutdownWaitsForAll ==
    \A s \in 1..Len(shutdowns) :
        LET t == shutdowns[s] IN
        /\ t.initialized => t.invoked = t.activated
        /\ t.pc # "gather" =>
                \A k \in 1..Len(t.at_return) : t.at_return[k] # "pending"

Shutdowns == {shutdowns[s] : s \in 1..Len(shutdowns)}

\* the shutdown calls that invoked the shutdown() of hook h
ShutdownsOf(h) ==
    {s \in 1..Len(shutdowns) :
        \E k \in 1..Len(shutdowns[s].invoked) : shutdowns[s].invoked[k] = h}

\* C11: once a shutdown call has ended, every exception a plugin's shutdown
\* raised in it is part of what the caller received.
C11_AllShutdownFaultsReported ==
    \A t \in Shutdowns :
        t.pc # "gather" =>
            \A k \in 1..Len(t.results) :
                t.results[k] = "Exception" => k \in ShutdownReport(t)

\* C12: the shutdown of an activated hook is invoked by at most one shutdown
\* call, and by exactly one once a shutdown call on the initialized context,
\* made after the hook's activation, has ended.
C12_ShutdownOncePerHook ==
    \A j \in 1..Len(hook_hooks) :
        /\ Cardinality(ShutdownsOf(hook_hooks[j])) <= 1
        /\ (\E t \in Shutdowns :
                t.initialized /\ t.pc # "gather" /\ j <= Len(t.activated)) =>
                Cardinality(ShutdownsOf(hook_hooks[j])) = 1

\* C13: when an init call has failed on a plugin and no init call is running
\* or has returned, the context is not initialized and the handler index and
\* the list of activated hooks are empty.
C13_NoPartialActivation ==
    (/\ \E n \in 1..Len(hook_inits) : hook_inits[n].error = "plugin fault"
     /\ \A n \in 1..Len(hook_inits) : hook_inits[n].pc = "raised") =>
        /\ ~hook_initialized
        /\ DOMAIN hook_handler_map = {}
        /\ hook_hooks = <<>>

\* C14: an init call never gets past a plugin whose application has no routing
\* prefix: it raises the prefix protocol error there, so it neither returns nor
\* sets _initialized nor accepts the pair, and while _initialized is false no
\* generator of enumerate_apps yields or ends normally.
C14_BadPrefixNeverInitialized ==
    /\ \A n \in 1..Len(web_inits) :
        web_inits[n].pc \in {"factory", "returned"} =>
            \A i \in 1..(web_inits[n].i - 1) : web_plugins[i] # "W3"
    /\ \A k \in 1..Len(webapps) :
        webapps[k].subapp.prefix \notin {"missing", ""}
    /\ web_initialized =>
            \E n \in 1..Len(web_inits) : web_inits[n].pc = "returned"
    /\ \A g \in 1..Len(enumerations) :
        enumerations[g].pc \in {"suspended", "exhausted"} => web_initialized

C14_Witness ==
    /\ web_plugins = <<"W3">>
    /\ ~web_initialized
    /\ \E n \in 1..Len(web_inits) :
        web_inits[n].error = "protocol error: prefix"
    /\ \E g \in 1..Len(enumerations) : enumerations[g].pc = "raised"

\* C15: with no plugin registered, the first init call of each context returns
\* and sets _initialized; after it every dispatch_event call returns BYPASS
\* without invoking a handler, and every generator of enumerate_apps ends
\* without yielding.
C15_NoPluginsTrivial ==
    /\ hook_inits # <<>> => (hook_inits[1].pc = "returned" /\ hook_initialized)
    /\ web_inits # <<>> => (web_inits[1].pc = "returned" /\ web_initialized)
    /\ \A t \in Dispatches :
        t.initialized =>
            (t.pc = "returned" /\ t.value = "BYPASS" /\ t.invoked = <<>>)
    /\ \A g \in 1..Len(enumerations) :
        enumerations[g].initialized =>
            /\ enumerations[g].yielded = <<>>
            /\ enumerations[g].pc \in {"created", "exhausted"}

C15_Witness ==
    /\ hook_plugins = <<>> /\ web_plugins = <<>>
    /\ hook_initialized /\ web_initialized
    /\ \A e \in RaisedEventTypes :
        \E t \in Dispatches : t.initialized /\ t.event = e /\ t.value = "BYPASS"
    /\ \E g \in 1..Len(enumerations) :
        enumerations[g].initialized /\ enumerations[g].pc = "exhausted"

\* C16: once init has been called, add_plugin is rejected: _plugins does not
\* change any more.
C16_RegisterOnlyUninitialized ==
    [][hook_inits # <<>> => hook_plugins' = hook_plugins]_vars

\* C17: every generator of enumerate_apps obtained on an initialized context
\* and run to its end has yielded one pair per registered plugin, in
\* registration order, and all of them have yielded the same sequence.
C17_EnumerateOnePerPlugin ==
    \A g \in 1..Len(enumerations) :
        (enumerations[g].initialized /\ enumerations[g].pc = "exhausted") =>
            /\ Len(enumerations[g].yielded) = Len(web_plugins)
            /\ \A k \in 1..Len(enumerations[g].yielded) :
                    k <= Len(web_plugins) =>
                        enumerations[g].yielded[k].subapp.mod = web_plugins[k]
            /\ \A f \in 1..Len(enumerations) :
                    (enumerations[f].initialized
                     /\ enumerations[f].pc = "exhausted") =>
                        enumerations[f].yielded = enumerations[g].yielded

\* the gathered results with every MODIFIED replaced by BYPASS
ModifiedAsBypass(results) ==
    [k \in 1..Len(results) |->
        IF results[k] = "MODIFIED" THEN "BYPASS" ELSE results[k]]

\* C18: a dispatch_event call that has ended has returned what its results give
\* with every MODIFIED replaced by BYPASS: BYPASS when all of them are then
\* BYPASS, REJECTED otherwise.
C18_ModifiedLikeBypass ==
    \A t \in Dispatches :
        t.pc # "gather" =>
            /\ t.pc = "returned"
            /\ t.value =
                IF \A k \in 1..Len(t.results) :
                        ModifiedAsBypass(t.results)[k] = "BYPASS"
                THEN "BYPASS" ELSE "REJECTED"

C18_Witness ==
    \E t \in Dispatches :
        /\ t.pc = "returned"
        /\ Len(t.results) >= 2
        /\ t.results[1] = "MODIFIED"
        /\ t.results[2] = "BYPASS"
        /\ t.value = "BYPASS"

\* binding k of hook h is in the handler index
InIndex(h, k) ==
    \E e \in DOMAIN hook_handler_map :
        \E p \in 1..Len(hook_handler_map[e]) :
            /\ hook_handler_map[e][p].inst = h.inst
            /\ hook_handler_map[e][p].idx = k

\* C19: while init awaits the init() of a hook, the bindings of that
\* hook are already in the handler index.
C19_BindingsBeforeInit ==
    \A n \in 1..Len(hook_inits) :
        hook_inits[n].pc = "hook_init" =>
            \A k \in 1..Len(get_handlers(hook_inits[n].hook.mod)) :
                InIndex(hook_inits[n].hook, k)

\* C20: a dispatch_event call made while an init call is suspended in a plugin
\* and _initialized is false invokes no handler.
C20_NoDispatchDuringInit ==
    [][(/\ Len(dispatches') = Len(dispatches) + 1
        /\ ~hook_initialized
        /\ \E n \in 1..Len(hook_inits) :
                hook_inits[n].pc \in {"factory", "hook_init"}) =>
            dispatches'[Len(dispatches')].invoked = <<>>]_vars

\* C21: an init call started while another init call is suspended in a plugin
\* activates no plugin: it awaits no plugin factory.
C21_OverlappingInitRejected ==
    [][(Len(hook_inits') = Len(hook_inits) + 1 /\ InitSuspended) =>
            hook_inits'[Len(hook_inits')].pc # "factory"]_vars

\* C22: once _initialized is true, a step of a later host operation (a
\* dispatch_event call and its handlers, a shutdown call and its hooks, an init
\* call, an add_plugin call) leaves _handler_map and _hooks as they are.
C22_IndexImmutableAfterInit ==
    [][(/\ hook_initialized
        /\ \/ dispatches' # dispatches
           \/ shutdowns' # shutdowns
           \/ Len(hook_inits') # Len(hook_inits)
           \/ hook_plugins' # hook_plugins) =>
            UNCHANGED <<hook_handler_map, hook_hooks>>]_vars

C22_Witness ==
    /\ hook_initialized
    /\ hook_hooks # <<>>
    /\ \E t \in Dispatches :
        /\ t.initialized
        /\ t.pc = "returned"
        /\ t.event \notin DOMAIN hook_handler_map
    /\ \E s \in 1..Len(shutdowns) :
        /\ shutdowns[s].initialized
        /\ shutdowns[s].pc \in {"returned", "raised"}

\* the bindings (plugin position, binding position) that the first n
\* registered modules declare for event type e, in registration order and,
\* within one module, in the order of get_handlers()
RECURSIVE DeclaredBindings(_, _, _)
DeclaredBindings(e, i, k) ==
    IF i = 0 THEN <<>>
    ELSE IF k = 0
    THEN DeclaredBindings(e, i - 1,
            IF i = 1 THEN 0 ELSE Len(get_handlers(hook_plugins[i - 1])))
    ELSE IF get_handlers(hook_plugins[i])[k] = e
    THEN Append(DeclaredBindings(e, i, k - 1), <<i, k>>)
    ELSE DeclaredBindings(e, i, k - 1)

\* the (plugin position, binding position) of each handler in the index for e
IndexedBindings(e) ==
    [p \in 1..Len(HandlersFor(hook_handler_map, e)) |->
        <<HandlersFor(hook_handler_map, e)[p].inst[2],
          HandlersFor(hook_handler_map, e)[p].idx>>]

\* C23: once an init call has returned and none is running, the handler list
\* of every event type holds the bindings that the modules this call went
\* through declare for it, each once, in registration order and then in
\* declaration order.
C23_IndexIsDeclaredBindings ==
    \A n \in 1..Len(hook_inits) :
        (hook_inits[n].pc = "returned" /\ ~InitSuspended) =>
            \A e \in HookEventTypes :
                IndexedBindings(e) =
                    DeclaredBindings(e, hook_inits[n].i - 1,
                        IF hook_inits[n].i = 1 THEN 0
                        ELSE Len(get_handlers(
                                hook_plugins[hook_inits[n].i - 1])))

\* C24: once a shutdown call on an initialized context has ended, a
\* dispatch_event call fails and invokes no handler, and an init call fails.
C24_StoppedAfterShutdown ==
    [][(\E s \in 1..Len(shutdowns) :
            /\ shutdowns[s].initialized
            /\ shutdowns[s].pc \in {"returned", "raised"}) =>
          /\ Len(dispatches') = Len(dispatches) + 1 =>
                /\ dispatches'[Len(dispatches')].pc = "raised"
                /\ dispatches'[Len(dispatches')].invoked = <<>>
          /\ Len(hook_inits') = Len(hook_inits) + 1 =>
                hook_inits'[Len(hook_inits')].pc = "raised"]_vars

\* C25: a shutdown call made after every init call has failed invokes the
\* shutdown of every hook these calls had activated.
C25_ShutdownAfterFailedInit ==
    [][(/\ Len(shutdowns') = Len(shutdowns) + 1
        /\ hook_inits # <<>>
        /\ \A n \in 1..Len(hook_inits) :
                /\ hook_inits[n].pc = "raised"
                /\ hook_inits[n].error = "plugin fault") =>
            shutdowns'[Len(shutdowns')].invoked = hook_hooks]_vars

\* C26: every pair init has accepted into webapps has a middleware value that
\* is None or an iterable.
C26_BadMiddlewareRejected ==
    \A k \in 1..Len(webapps) :
        \/ webapps[k].global_middlewares = "NoneType"
        \/ IsIterable(webapps[k].global_middlewares)

\* C27: when an init call has failed in a plugin and an init call made after it
\* has returned, no event type has two handlers in the index that come from the
\* same binding of the same registered module.
C27_RetryLikeSingleInit ==
    (\E n \in 1..Len(hook_inits) :
        /\ hook_inits[n].pc = "raised"
        /\ hook_inits[n].error = "plugin fault"
        /\ \E m \in (n + 1)..Len(hook_inits) : hook_inits[m].pc = "returned") =>
        \A e \in DOMAIN hook_handler_map :
            \A p, q \in 1..Len(hook_handler_map[e]) :
                (/\ hook_handler_map[e][p].inst[2] = hook_handler_map[e][q].inst[2]
                 /\ hook_handler_map[e][p].idx = hook_handler_map[e][q].idx) =>
                    p = q

\* C28: a WebAppPluginContext.init call made when _initialized is true raises
\* "already initialized" without awaiting any factory, and changes neither
\* webapps, _plugins, _initialized nor any other init call.
C28_SecondWebInitRejected ==
    [][(web_initialized /\ Len(web_inits') = Len(web_inits) + 1) =>
          /\ web_inits'[Len(web_inits')].pc = "raised"
          /\ web_inits'[Len(web_inits')].error = "already initialized"
          /\ SubSeq(web_inits', 1, Len(web_inits)) = web_inits
          /\ UNCHANGED <<webapps, web_plugins, web_initialized>>]_vars

C28_Witness ==
    /\ web_initialized
    /\ webapps # <<>>
    /\ \E n \in 1..Len(web_inits) :
        web_inits[n].error = "already initialized"
    /\ \E g \in 1..Len(enumerations) :
        /\ enumerations[g].pc = "exhausted"
        /\ enumerations[g].yielded = webapps

\* C29: a step that changes one dispatch_event call changes no other one, and
\* every call that has ended has returned REJECTED exactly when one of its own
\* handler invocations returned REJECTED or raised.
C29_DispatchesIndependent ==
    [][/\ \A d, e \in 1..Len(dispatches) :
            (d # e /\ dispatches'[d] # dispatches[d]) =>
                dispatches'[e] = dispatches[e]
       /\ \A d \in 1..Len(dispatches') :
            dispatches'[d].pc # "gather" =>
                /\ dispatches'[d].pc = "returned"
                /\ dispatches'[d].value =
                    IF Rejected(dispatches'[d]) \/ Raised(dispatches'[d])
                    THEN "REJECTED" ELSE "BYPASS"]_vars

C29_Witness ==
    \E d, e \in 1..Len(dispatches) :
        /\ d # e
        /\ dispatches[d].pc = "returned"
        /\ dispatches[d].value = "BYPASS"
        /\ dispatches[d].results # <<>>
        /\ dispatches[e].pc = "gather"
        /\ dispatches[e].invoked = dispatches[d].invoked
        /\ \E k \in 1..Len(dispatches[e].results) :
                dispatches[e].results[k] \in {"REJECTED", "Exception"}

\* C30: a dispatch_event call that waits for its handlers eventually returns,
\* and a shutdown call that waits for its hooks eventually returns or raises.
C30_CallsComplete ==
    /\ \A d \in 1..MaxCalls :
        (d <= Len(dispatches) /\ dispatches[d].pc = "gather") ~>
            (d <= Len(dispatches) /\ dispatches[d].pc = "returned")
    /\ \A s \in 1..MaxCalls :
        (s <= Len(shutdowns) /\ shutdowns[s].pc = "gather") ~>
            (s <= Len(shutdowns) /\ shutdowns[s].pc \in {"returned", "raised"})

C30_Witness ==
    /\ \E t \in Dispatches :
        /\ t.pc = "returned"
        /\ t.results # <<>>
        /\ Raised(t)
    /\ \E s \in 1..Len(shutdowns) :
        /\ shutdowns[s].pc \in {"returned", "raised"}
        /\ shutdowns[s].results # <<>>

\* C31: a dispatch_event call that waits for its handlers eventually returns to
\* its caller, also when one of the handlers never ends.
C31_NoWaitOnUnresponsiveHandler ==
    \A d \in 1..MaxCalls :
        (d <= Len(dispatches) /\ dispatches[d].pc = "gather") ~>
            (d <= Len(dispatches) /\ dispatches[d].pc \in {"returned", "raised"})

\* C32: a HookPluginContext.shutdown call made while _initialized is false
\* returns at once without an error, invokes the shutdown of no hook and
\* changes no field of the context; a WebAppPluginContext.shutdown call changes
\* no field of its context.
C32_ShutdownNoOp ==
    [][/\ (Len(shutdowns') = Len(shutdowns) + 1 /\ ~hook_initialized) =>
            /\ shutdowns'[Len(shutdowns')].pc = "returned"
            /\ shutdowns'[Len(shutdowns')].invoked = <<>>
            /\ UNCHANGED <<hook_plugins, hook_hooks, hook_handler_map,
                           hook_initialized, hook_inits, dispatches>>
       /\ web_shutdowns' # web_shutdowns =>
            UNCHANGED <<web_plugins, web_initialized, webapps, web_inits,
                        enumerations>>]_vars

C32_Witness ==
    /\ \E s \in 1..Len(shutdowns) :
        /\ ~shutdowns[s].initialized
        /\ shutdowns[s].activated # <<>>
        /\ shutdowns[s].pc = "returned"
    /\ web_shutdowns > 0
    /\ webapps # <<>>

\* C33: load_hook_plugins and load_webapp_plugins return a context whose
\* _plugins holds the module of every discovered entry point, one per entry
\* point and in the order of discovery, and on which no init has been called:
\* _initialized is false and nothing is activated.
C33_LoadersRegisterInOrder ==
    [][/\ \A discovered \in Discoveries(HookEntryPoints) :
            load_hook_plugins(discovered) =>
                /\ Len(hook_plugins') = Len(discovered)
                /\ \A k \in 1..Len(discovered) :
                        hook_plugins'[k] = discovered[k].mod
                /\ ~hook_initialized'
                /\ hook_inits' = <<>>
                /\ hook_hooks' = <<>>
                /\ DOMAIN hook_handler_map' = {}
       /\ \A discovered \in Discoveries(WebEntryPoints) :
            load_webapp_plugins(discovered) =>
                /\ Len(web_plugins') = Len(discovered)
                /\ \A k \in 1..Len(discovered) :
                        web_plugins'[k] = discovered[k].mod
                /\ ~web_initialized'
                /\ web_inits' = <<>>
                /\ webapps' = <<>>]_vars

C33_Witness ==
    /\ hook_plugins = <<"B", "A", "B">>
    /\ ~hook_initialized
    /\ web_plugins = <<"W2", "W1">>
    /\ ~web_initialized

====
